---- MODULE Spec2Model ----
(***************************************************************************)
(* A model of create_icon.py: create_printer_icon(size) draws a printer    *)
(* with five primitive shapes on a size x size RGBA canvas, and main()     *)
(* renders the four sizes and saves an ICO container.                      *)
(*                                                                         *)
(* Pixel coordinates are Python floats in the source.  Every coordinate    *)
(* the script computes is a multiple of 1/200 pixel (0.05, 0.15, 0.25,     *)
(* 0.325, 0.71 ... times an integer size), so lengths are kept here as     *)
(* integers counting 1/U pixel, U = 200.  An image is its list of drawn    *)
(* shapes together with the colour found at a set of probe points, which   *)
(* every draw overwrites where the shape covers the probe.                 *)
(***************************************************************************)
EXTENDS Integers, Sequences, FiniteSets, TLC

\* ------------------------------------------------------------------ bounds
\* The render harness tries every size 1..MaxSize (and the packager's sizes).
MaxSize == 100
\* The entry point is run at most MaxRuns times in succession.
MaxRuns == 2

\* --------------------------------------------------------------- constants
\* Sub-pixel units per pixel.
U == 200

\* sizes = [16, 32, 48, 256]
sizes == <<16, 32, 48, 256>>

\* An RGB tuple drawn on an RGBA canvas is opaque.
Opaque(rgb) == rgb \o <<255>>

printer_body == Opaque(<<70, 130, 180>>)
paper_color == Opaque(<<255, 255, 255>>)
outline_color == Opaque(<<40, 80, 120>>)
accent_color == Opaque(<<100, 180, 255>>)
button_color == Opaque(<<100, 200, 100>>)
tray_color == Opaque(<<60, 110, 160>>)
\* Image.new('RGBA', (size, size), (0, 0, 0, 0))
Transparent == <<0, 0, 0, 0>>

Max(a, b) == IF a >= b THEN a ELSE b
Min(a, b) == IF a <= b THEN a ELSE b

\* size * f for a float literal f = num/den, in sub-pixel units.
Times(v, num, den) == (v * num) \div den

\* line_width = max(1, int(2 * scale)), scale = size / 64.0.  size/64.0 and its
\* double are exact in binary floating point; int() truncates.
LineWidthRounded(s) == Max(1, (2 * s + 32) \div 64)
LineWidth(s) == Max(1, (2 * s) \div 64)

\* ------------------------------------------------------------------ shapes
Shape(part, kind, box, fill, width) ==
    [part |-> part, kind |-> kind, box |-> box, fill |-> fill,
     outline |-> outline_color, width |-> width]

PaperShape(s, lw) ==
    LET paper_x == Times(s * U, 25, 100)
        paper_y == Times(s * U, 5, 100)
        paper_w == Times(s * U, 50, 100)
        paper_h == Times(s * U, 30, 100)
    IN  Shape("paper", "rectangle",
              <<paper_x, paper_y, paper_x + paper_w, paper_y + paper_h>>,
              paper_color, lw * U)

body_x(s) == Times(s * U, 15, 100)
body_y(s) == Times(s * U, 25, 100)
body_w(s) == Times(s * U, 70, 100)
body_h(s) == Times(s * U, 50, 100)

BodyShape(s, lw) ==
    Shape("body", "rectangle",
          <<body_x(s), body_y(s), body_x(s) + body_w(s), body_y(s) + body_h(s)>>,
          printer_body, lw * U)

PanelShape(s, lw) ==
    LET panel_y == body_y(s) + Times(body_h(s), 3, 10)
    IN  Shape("panel", "rectangle",
              <<body_x(s) + 2 * lw * U, panel_y,
                body_x(s) + body_w(s) - 2 * lw * U,
                body_y(s) + body_h(s) - 2 * lw * U>>,
              accent_color, Max(1, lw - 1) * U)

ButtonShape(s, lw) ==
    LET button_x == body_x(s) + Times(body_w(s), 8, 10)
        button_y == body_y(s) + Times(body_h(s), 15, 100)
        button_r == Times(s * U, 5, 100)
    IN  Shape("button", "ellipse",
              <<button_x - button_r, button_y - button_r,
                button_x + button_r, button_y + button_r>>,
              button_color, Max(1, lw - 1) * U)

TrayShape(s, lw) ==
    LET tray_y == body_y(s) + body_h(s)
        tray_h == Times(s * U, 15, 100)
    IN  Shape("tray", "rectangle",
              <<body_x(s), tray_y, body_x(s) + body_w(s), tray_y + tray_h>>,
              tray_color, lw * U)

\* if size >= 32:
ButtonDrawnLate(s) == s > 32
ButtonDrawn(s) == s >= 32

\* ------------------------------------------------------------ the canvas
\* Probe points, as fractions (in 1/200) of the canvas side: a grid of tenths
\* and the centre of the power button.
\* (button_x, button_y) = (0.71 * size, 0.325 * size)
ButtonCentre == <<142, 65>>

Probes ==
    {<<20 * i, 20 * j>> : i \in 0..10, j \in 0..10} \cup {ButtonCentre}

\* The drawing library rejects a box whose second corner is less than its
\* first in recent releases, and draws the box with its corners exchanged in
\* older ones.
Inverted(box) == box[3] < box[1] \/ box[4] < box[2]

Normalised(box) ==
    <<Min(box[1], box[3]), Min(box[2], box[4]),
      Max(box[1], box[3]), Max(box[2], box[4])>>

LibraryOutcomes(sh) == IF Inverted(sh.box) THEN {"raise", "draw"} ELSE {"draw"}

\* Whether the shape covers the point (x, y), and with which colour: the
\* outline band lies inside the box, the fill inside the band.
InBox(b, x, y) == b[1] <= x /\ x <= b[3] /\ b[2] <= y /\ y <= b[4]

Covers(sh, x, y) ==
    LET b == Normalised(sh.box)
    IN  /\ InBox(b, x, y)
        /\ \/ sh.kind = "rectangle"
           \/ LET r == (b[3] - b[1]) \div 2
                  dx == x - (b[1] + r)
                  dy == y - (b[2] + r)
              IN  dx * dx + dy * dy <= r * r

ColourOf(sh, x, y) ==
    LET b == Normalised(sh.box)
        w == sh.width
    IN  IF sh.kind = "rectangle"
        THEN IF \/ x - b[1] < w \/ b[3] - x < w
                \/ y - b[2] < w \/ b[4] - y < w
             THEN sh.outline ELSE sh.fill
        ELSE LET r == (b[3] - b[1]) \div 2
                 dx == x - (b[1] + r)
                 dy == y - (b[2] + r)
             IN  IF r <= w \/ dx * dx + dy * dy > (r - w) * (r - w)
                 THEN sh.outline ELSE sh.fill

\* A draw call paints in place: it overwrites what the shape covers.
Painted(im, sh) ==
    [im EXCEPT
       !.shapes = Append(@, sh),
       !.px = [p \in Probes |->
                 IF Covers(sh, p[1] * im.w, p[2] * im.h)
                 THEN ColourOf(sh, p[1] * im.w, p[2] * im.h)
                 ELSE @[p]]]

\* Image.new('RGBA', (size, size), (0, 0, 0, 0))
NewCanvas(s) ==
    [w |-> s, h |-> s, shapes |-> <<>>, px |-> [p \in Probes |-> Transparent]]

\* ------------------------------------------------------------------- state
VARIABLES
    pc,          \* main's position
    idx,         \* position of the for loop in sizes
    icons,       \* icons = []
    size,        \* create_printer_icon's argument
    rpc,         \* create_printer_icon's position
    line_width,  \* line_width
    img,         \* img, drawn on through draw
    file,        \* what output_path holds
    log,         \* what has happened in this run: prints, calls, the write
    failure,     \* where an exception was raised in this run, or "none"
    run,         \* how many times the entry point has been started
    prior,       \* what output_path held when this run started
    firstFile,   \* what the first completed run left at output_path
    firstIcons   \* the images the first completed run rendered

vars ==
    <<pc, idx, icons, size, rpc, line_width, img, file, log, failure, run,
      prior, firstFile, firstIcons>>

mainVars == <<idx, icons, file, run, prior, firstFile, firstIcons>>

\* ------------------------------------------------------------ the ICO file
\* The encoder builds one frame per requested size from the image it is saved
\* from: the image itself where the size is its own, else a copy resampled
\* down to that size (its geometry scaled by s / w).
ScaleBox(b, s, w) ==
    <<(b[1] * s) \div w, (b[2] * s) \div w, (b[3] * s) \div w, (b[4] * s) \div w>>

Thumbnail(im, s) ==
    IF im.w = s /\ im.h = s
    THEN im
    ELSE [w |-> s, h |-> s,
          shapes |-> [k \in 1..Len(im.shapes) |->
                        [im.shapes[k] EXCEPT
                           !.box = ScaleBox(@, s, im.w),
                           !.width = (@ * s) \div im.w]],
          px |-> im.px]

\* Sizes larger than the image (or than 256) are skipped by the encoder.
Encodable(im, s) == s <= im.w /\ s <= im.h /\ s <= 256

RECURSIVE FramesOf(_, _)
FramesOf(im, szs) ==
    IF szs = <<>> THEN <<>>
    ELSE IF Encodable(im, Head(szs))
         THEN <<Thumbnail(im, Head(szs))>> \o FramesOf(im, Tail(szs))
         ELSE FramesOf(im, Tail(szs))

\* icons[-1].save(output_path, format='ICO', sizes=[(s, s) for s in sizes])
IcoOfBaseOnly(ics, szs) ==
    [kind |-> "ico", frames |-> <<ics[Len(ics)]>>]
IcoOfAppending(ics, szs) ==
    [kind |-> "ico", frames |-> prior.frames \o FramesOf(ics[Len(ics)], szs)]
IcoOf(ics, szs) ==
    [kind |-> "ico", frames |-> FramesOf(ics[Len(ics)], szs)]

\* What the output path can hold before a run: nothing, or an earlier icon.
NoFile == [kind |-> "absent", frames |-> <<>>]
StaleFile == [kind |-> "ico", frames |-> <<NewCanvas(24)>>]
PriorContents == {NoFile, StaleFile}

Ev(e, a) == [ev |-> e, arg |-> a]

\* main() has no try/except: an exception raised anywhere unwinds it.  (The
\* render harness just records that the call raised.)
UnwindSwallowed(p) ==
    IF p = "render" THEN "loop" ELSE IF p = "harness" THEN p ELSE "saved"
Unwind(p) == IF p = "harness" THEN "harness" ELSE "failed"

Raise(stage) ==
    /\ failure' = stage
    /\ pc' = Unwind(pc)
    /\ log' = Append(log, Ev("raise", 0))

Init ==
    /\ pc = "start"
    /\ idx = 0
    /\ icons = <<>>
    /\ size = 0
    /\ rpc = "idle"
    /\ line_width = 0
    /\ img = NewCanvas(0)
    /\ file \in PriorContents
    /\ log = <<>>
    /\ failure = "none"
    /\ run = 1
    /\ prior = file
    /\ firstFile = NoFile
    /\ firstIcons = <<>>

\* ------------------------------------------- create_printer_icon(size)
\* The order of the statements of create_printer_icon.
NextStepBodyFirst(step) ==
    CASE step = "new" -> "body"
      [] step = "body" -> "paper"
      [] step = "paper" -> "panel"
      [] step = "panel" -> "button"
      [] step = "button" -> "tray"
      [] OTHER -> "return"
NextStep(step) ==
    CASE step = "new" -> "paper"
      [] step = "paper" -> "body"
      [] step = "body" -> "panel"
      [] step = "panel" -> "button"
      [] step = "button" -> "tray"
      [] OTHER -> "return"

\* img = Image.new(...); draw = ImageDraw.Draw(img); line_width = ...
NewImage ==
    /\ rpc = "new"
    /\ img' = NewCanvas(size)
    /\ line_width' = LineWidth(size)
    /\ rpc' = NextStep(rpc)
    /\ UNCHANGED <<pc, size, log, failure, mainVars>>

\* One draw call: the library either raises or paints.
DrawStep(sh) ==
    \E outcome \in LibraryOutcomes(sh) :
        IF outcome = "raise"
        THEN /\ Raise("render")
             /\ rpc' = "raised"
             /\ UNCHANGED <<img, size, line_width, mainVars>>
        ELSE /\ img' = Painted(img, sh)
             /\ rpc' = NextStep(rpc)
             /\ UNCHANGED <<pc, log, failure, size, line_width, mainVars>>

DrawPaper == rpc = "paper" /\ DrawStep(PaperShape(size, line_width))

DrawBody == rpc = "body" /\ DrawStep(BodyShape(size, line_width))

DrawPanel == rpc = "panel" /\ DrawStep(PanelShape(size, line_width))

DrawButton ==
    /\ rpc = "button"
    /\ IF ButtonDrawn(size)
       THEN DrawStep(ButtonShape(size, line_width))
       ELSE rpc' = NextStep(rpc) /\ UNCHANGED <<pc, log, failure, img, size, line_width, mainVars>>

DrawTray == rpc = "tray" /\ DrawStep(TrayShape(size, line_width))

Render == NewImage \/ DrawPaper \/ DrawBody \/ DrawPanel \/ DrawButton \/ DrawTray

\* ------------------------------------------------------------------ main()
\* print("Creating printer icon...")
Start ==
    /\ pc = "start"
    /\ icons' = <<>>
    /\ idx' = 1
    /\ log' = Append(log, Ev("print_creating", 0))
    /\ pc' = "loop"
    /\ UNCHANGED <<size, rpc, line_width, img, file, failure, run, prior,
                   firstFile, firstIcons>>

\* for size in sizes: print(...); icon = create_printer_icon(size)
LoopCall ==
    /\ pc = "loop"
    /\ idx <= Len(sizes)
    /\ size' = sizes[idx]
    /\ rpc' = "new"
    /\ log' = log \o <<Ev("print_generating", sizes[idx]), Ev("call", sizes[idx])>>
    /\ pc' = "render"
    /\ UNCHANGED <<line_width, img, failure, mainVars>>

\* return img; icons.append(icon)
LoopAppend ==
    /\ pc = "render"
    /\ rpc = "return"
    /\ icons' = Append(icons, img)
    /\ idx' = idx + 1
    /\ log' = Append(log, Ev("return", size))
    /\ rpc' = "idle"
    /\ pc' = "loop"
    /\ UNCHANGED <<size, line_width, img, file, failure, run, prior,
                   firstFile, firstIcons>>

\* An exception out of the renderer that is not the library's box check
\* (Image.new cannot allocate the canvas).
RenderError ==
    /\ pc = "render"
    /\ rpc = "new"
    /\ Raise("render")
    /\ rpc' = "raised"
    /\ UNCHANGED <<size, line_width, img, mainVars>>

\* print(f"\nSaving to {output_path}...")
LoopEndEarly ==
    /\ pc = "loop"
    /\ idx >= Len(sizes)
    /\ log' = Append(log, Ev("print_saving", 0))
    /\ pc' = "save"
    /\ UNCHANGED <<size, rpc, line_width, img, failure, mainVars>>
LoopEnd ==
    /\ pc = "loop"
    /\ idx > Len(sizes)
    /\ log' = Append(log, Ev("print_saving", 0))
    /\ pc' = "save"
    /\ UNCHANGED <<size, rpc, line_width, img, failure, mainVars>>

\* save() opens output_path for writing, which empties it ...
SaveOpen ==
    /\ pc = "save"
    /\ file' = [kind |-> "empty", frames |-> <<>>]
    /\ log' = Append(log, Ev("open", 0))
    /\ pc' = "writing"
    /\ UNCHANGED <<idx, icons, size, rpc, line_width, img, failure, run, prior,
                   firstFile, firstIcons>>

\* ... or cannot open it (no assets directory, no permission).
SaveOpenError ==
    /\ pc = "save"
    /\ Raise("open")
    /\ UNCHANGED <<size, rpc, line_width, img, mainVars>>

\* The encoder writes the container ...
SaveWrite ==
    /\ pc = "writing"
    /\ file' = IcoOf(icons, sizes)
    /\ log' = Append(log, Ev("write", 0))
    /\ pc' = "saved"
    /\ UNCHANGED <<idx, icons, size, rpc, line_width, img, failure, run, prior,
                   firstFile, firstIcons>>

\* ... or fails part way, leaving some of the frames.
SaveWriteError ==
    /\ pc = "writing"
    /\ \E n \in 0..(Len(sizes) - 1) :
         file' = [kind |-> "partial", frames |-> SubSeq(IcoOf(icons, sizes).frames, 1, n)]
    /\ Raise("write")
    /\ UNCHANGED <<idx, icons, size, rpc, line_width, img, run, prior,
                   firstFile, firstIcons>>

\* print("[OK] Icon created successfully!") and the two lines after it
PrintOk ==
    /\ pc = "saved"
    /\ log' = Append(log, Ev("print_ok", 0))
    /\ pc' = "done"
    /\ firstFile' = IF run = 1 THEN file ELSE firstFile
    /\ firstIcons' = IF run = 1 THEN icons ELSE firstIcons
    /\ UNCHANGED <<idx, icons, size, rpc, line_width, img, file, failure, run, prior>>

\* The script is started again: a new process, the same output path.
Rerun ==
    /\ pc = "done"
    /\ run < MaxRuns
    /\ run' = run + 1
    /\ prior' = file
    /\ pc' = "start"
    /\ idx' = 0
    /\ icons' = <<>>
    /\ log' = <<>>
    /\ UNCHANGED <<size, rpc, line_width, img, file, failure, firstFile, firstIcons>>

Next ==
    \/ Start \/ LoopCall \/ Render \/ LoopAppend \/ RenderError \/ LoopEnd
    \/ SaveOpen \/ SaveOpenError \/ SaveWrite \/ SaveWriteError \/ PrintOk
    \/ Rerun

Spec == Init /\ [][Next]_vars

\* ------------------------------------------------ the renderer on its own
\* create_printer_icon called once with any positive size.
HarnessSizes == (1..MaxSize) \cup {sizes[k] : k \in 1..Len(sizes)}

RenderInit ==
    /\ pc = "harness"
    /\ idx = 0
    /\ icons = <<>>
    /\ size \in HarnessSizes
    /\ rpc = "new"
    /\ line_width = 0
    /\ img = NewCanvas(0)
    /\ file = NoFile
    /\ log = <<>>
    /\ failure = "none"
    /\ run = 1
    /\ prior = NoFile
    /\ firstFile = NoFile
    /\ firstIcons = <<>>

\* return img
HarnessReturn ==
    /\ pc = "harness"
    /\ rpc = "return"
    /\ icons' = <<img>>
    /\ rpc' = "idle"
    /\ UNCHANGED <<pc, idx, size, line_width, img, file, log, failure, run,
                   prior, firstFile, firstIcons>>

RenderNext == Render \/ HarnessReturn

RenderSpec == RenderInit /\ [][RenderNext]_vars

\* ------------------------------------------------------------- properties
Range(s) == {s[k] : k \in 1..Len(s)}

EventsOf(e) == SelectSeq(log, LAMBDA x : x.ev = e)

Positions(e) == {k \in 1..Len(log) : log[k].ev = e}

\* C1: when the run has completed, for every size of sizes the frame of the
\* file with that size is the image the renderer returned for that size.
C1_EveryRenderedImageIsWritten ==
    pc = "done" =>
        \A k \in 1..Len(sizes) :
            \E j \in 1..Len(file.frames) :
                /\ file.frames[j].w = sizes[k]
                /\ file.frames[j] = icons[k]

\* C2: after a successful run the file is an icon container of exactly four
\* frames, whose dimensions are 16x16, 32x32, 48x48 and 256x256, one frame
\* each.
C2_FourFrames ==
    pc \in {"saved", "done"} =>
        /\ file.kind = "ico"
        /\ Len(file.frames) = 4
        /\ {<<f.w, f.h>> : f \in Range(file.frames)}
             = {<<16, 16>>, <<32, 32>>, <<48, 48>>, <<256, 256>>}
        /\ \A s \in Range(sizes) :
             Cardinality({j \in 1..Len(file.frames) : file.frames[j].w = s}) = 1

C2_Witness ==
    /\ pc = "done"
    /\ prior = StaleFile
    /\ Len(file.frames) = 4
    /\ file.frames[1].w = 16

\* Python's round(n / d): to the nearest integer, a tie to the even one.
RoundHalfEven(n, d) ==
    LET q == n \div d
        r == n % d
    IN  IF 2 * r < d THEN q
        ELSE IF 2 * r > d THEN q + 1
        ELSE IF q % 2 = 0 THEN q ELSE q + 1

\* C3 as stated: once computed, line_width is max(1, round(2 * size / 64)).
C3_LineWidthRounds ==
    rpc # "new" => line_width = Max(1, RoundHalfEven(2 * size, 64))

\* C3 amended: once computed, line_width is 2 * size / 64 truncated to an
\* integer, with a floor of 1 (1 below size 64, size \div 32 from there on), and
\* the paper, the body and the tray are stroked with that width.
C3_LineWidthTruncates ==
    rpc # "new" =>
        /\ line_width = (IF size < 64 THEN 1 ELSE size \div 32)
        /\ \A sh \in Range(img.shapes) :
             sh.part \in {"paper", "body", "tray"} => sh.width = line_width * U

C3_Witness ==
    /\ size = 48
    /\ rpc = "idle"
    /\ line_width = 1
    /\ {sh.part : sh \in Range(img.shapes)} = {"paper", "body", "panel", "button", "tray"}

\* C4: for every positive size the call raises nothing, and every box handed
\* to the drawing library has its second corner not less than its first.
C4_NoRenderError ==
    /\ failure = "none"
    /\ \A sh \in Range(img.shapes) : ~Inverted(sh.box)

\* C5: the returned image shows the button's green fill at the button's centre
\* exactly when size >= 32; from 32 up the button is drawn and nothing drawn
\* after it reaches its box, below 32 there is no button and no green at all.
Disjoint(a, b) == a[3] < b[1] \/ b[3] < a[1] \/ a[4] < b[2] \/ b[4] < a[2]

C5_ButtonIffAtLeast32 ==
    (rpc = "idle" /\ Len(icons) = 1) =>
        LET im == icons[1]
            at == {k \in 1..Len(im.shapes) : im.shapes[k].part = "button"}
        IN  /\ (im.px[ButtonCentre] = button_color) <=> (size >= 32)
            /\ size >= 32 =>
                 /\ Cardinality(at) = 1
                 /\ \A k \in at : \A j \in (k + 1)..Len(im.shapes) :
                      Disjoint(im.shapes[j].box, im.shapes[k].box)
            /\ size < 32 =>
                 /\ at = {}
                 /\ \A p \in Probes : im.px[p] # button_color

C5_Witness ==
    /\ rpc = "idle"
    /\ size = 32
    /\ Len(icons) = 1
    /\ icons[1].px[ButtonCentre] = button_color
    /\ icons[1].shapes[Len(icons[1].shapes)].part = "tray"

\* C6: the shapes are drawn in the order paper, body, panel, button (from size
\* 32), tray, each at most once, and where shapes overlap the returned image
\* has the colour of the one that comes last in that order.
DrawOrder(s) ==
    IF s >= 32 THEN <<"paper", "body", "panel", "button", "tray">>
    ELSE <<"paper", "body", "panel", "tray">>

Layer(part, s, lw) ==
    CASE part = "paper" -> PaperShape(s, lw)
      [] part = "body" -> BodyShape(s, lw)
      [] part = "panel" -> PanelShape(s, lw)
      [] part = "button" -> ButtonShape(s, lw)
      [] OTHER -> TrayShape(s, lw)

TopColour(s, lw, p) ==
    LET order == DrawOrder(s)
        over == {k \in 1..Len(order) : Covers(Layer(order[k], s, lw), p[1] * s, p[2] * s)}
    IN  IF over = {} THEN Transparent
        ELSE LET top == CHOOSE k \in over : \A j \in over : j <= k
             IN  ColourOf(Layer(order[top], s, lw), p[1] * s, p[2] * s)

C6_BackToFront ==
    /\ rpc \notin {"idle", "new"} =>
         /\ Len(img.shapes) <= Len(DrawOrder(size))
         /\ \A k \in 1..Len(img.shapes) : img.shapes[k].part = DrawOrder(size)[k]
    /\ rpc = "return" =>
         /\ Len(img.shapes) = Len(DrawOrder(size))
         /\ \A p \in Probes : img.px[p] = TopColour(size, line_width, p)

C6_Witness ==
    /\ rpc = "return"
    /\ size = 256
    /\ Len(img.shapes) = 5
    /\ Covers(img.shapes[1], 100 * size, 60 * size)
    /\ Covers(img.shapes[2], 100 * size, 60 * size)
    /\ img.px[<<100, 60>>] = printer_body

\* C7: the renderer is called once per size, in the order of sizes, one image
\* is collected per call, the file is written once and only after the four
\* calls have returned, and the completion line follows the write.
C7_CallsThenOneWrite ==
    LET calls == EventsOf("call")
        rets == EventsOf("return")
    IN  /\ Len(calls) <= Len(sizes)
        /\ \A k \in 1..Len(calls) : calls[k].arg = sizes[k]
        /\ Len(rets) = Len(icons)
        /\ Len(calls) - Len(rets) \in {0, 1}
        /\ \A k \in 1..Len(rets) : rets[k].arg = sizes[k] /\ icons[k].w = sizes[k]
        /\ Cardinality(Positions("write")) <= 1
        /\ \A w \in Positions("write") :
             /\ Cardinality({k \in Positions("return") : k < w}) = Len(sizes)
             /\ \A k \in Positions("call") : k < w
        /\ \A o \in Positions("print_ok") : \E w \in Positions("write") : w < o
        /\ pc = "done" =>
             /\ Len(calls) = Len(sizes)
             /\ Cardinality(Positions("write")) = 1
             /\ Cardinality(Positions("print_ok")) = 1

C7_Witness ==
    /\ pc = "done"
    /\ Len(EventsOf("call")) = 4
    /\ log[Len(log)].ev = "print_ok"
    /\ log[Len(log) - 1].ev = "write"

\* C8: once an exception has been raised the run is over: nothing happens
\* after it (no call, no write, no completion line), and when it was raised
\* before the write began the output path holds what it held before the run.
C8_FailureAborts ==
    /\ (pc = "failed") <=> (failure # "none")
    /\ failure # "none" =>
         /\ Positions("raise") = {Len(log)}
         /\ Positions("print_ok") = {}
         /\ Positions("write") = {}
         /\ failure \in {"render", "open"} => file = prior /\ Positions("open") = {}
    /\ failure = "none" => Positions("raise") = {}

C8_Witness ==
    /\ pc = "failed"
    /\ failure = "render"
    /\ Len(icons) = 2
    /\ prior = StaleFile
    /\ file = StaleFile

\* C9: every completed run renders the images the first one rendered and
\* leaves the file the first one left, which is made of this run's images alone
\* whatever the output path held before.
C9_Idempotent ==
    pc = "done" =>
        /\ icons = firstIcons
        /\ file = firstFile
        /\ file.kind = "ico"
        /\ file.frames = [k \in 1..Len(sizes) |-> Thumbnail(icons[Len(icons)], sizes[k])]

C9_Witness ==
    /\ pc = "done"
    /\ run = 2
    /\ prior.kind = "ico"
    /\ Len(prior.frames) = 4
    /\ file = prior

\* C10: for every positive size the call returns a size x size image, and no
\* coordinate of a drawn shape is negative or exceeds the canvas side.
InCanvas(box, s) == \A k \in 1..4 : 0 <= box[k] /\ box[k] <= s * U

C10_ShapesInsideCanvas ==
    rpc # "new" =>
        /\ img.w = size /\ img.h = size
        /\ \A sh \in Range(img.shapes) : InCanvas(sh.box, size)

====
